---- MODULE Spec2Model ----
(***************************************************************************)
(* Model of nim, a command-line image converter/resizer.                   *)
(*                                                                         *)
(*   cmd/root.go   RunE: validates the command line, builds ProcessOptions *)
(*                 and calls image.ProcessImage.                           *)
(*   pkg/image     OpenImage (decoder dispatch on the input extension) and *)
(*                 ProcessImage (decode, resize, create output, encoder    *)
(*                 dispatch on the output format).                         *)
(*                                                                         *)
(* Go strings that the code inspects character by character (paths, the    *)
(* size string, the colour string, format names) are sequences of          *)
(* one-character strings.  Images are modelled by their geometry: width,   *)
(* height, the rectangle holding (resampled) source pixels and the colour  *)
(* of every pixel outside that rectangle.                                  *)
(***************************************************************************)
EXTENDS Integers, Sequences, FiniteSets, TLC

VARIABLES
    cgo,        \* build tag: TRUE for a cgo build, FALSE for a !cgo build
    req,        \* the request of this run: entry point and its raw inputs
    pc,         \* position of the run in RunE / ProcessImage / OpenImage
    inputPath,  \* ProcessImage parameter
    outputPath, \* ProcessImage parameter
    options,    \* ProcessImage parameter (a by-value copy, mutated locally)
    inFile,     \* the file at the input path: existence, content, size
    outFile,    \* the file at the output path
    src,        \* decoded source image (width, height)
    resized,    \* the image handed to the encoder
    err,        \* error returned by the run ("" for none)
    did,        \* the effects the run has performed so far
    handles     \* number of open file handles on the input and output file

vars == <<cgo, req, pc, inputPath, outputPath, options, inFile, outFile,
          src, resized, err, did, handles>>

--------------------------------------------------------------------------
(* Bounds of the model.                                                    *)

\* Largest target width/height drawn for a request.
MaxDim == 3

\* Largest width/height of the small source images.
MaxSrc == 3

\* Side of the test image of TestProcessImage (a 100x100 red square).
TestSize == 100

--------------------------------------------------------------------------
(* Go strings as sequences of characters.                                  *)

Upper == <<"A","B","C","D","E","F","G","H","I","J","K","L","M",
           "N","O","P","Q","R","S","T","U","V","W","X","Y","Z">>
Lower == <<"a","b","c","d","e","f","g","h","i","j","k","l","m",
           "n","o","p","q","r","s","t","u","v","w","x","y","z">>
Digits == <<"0","1","2","3","4","5","6","7","8","9">>
HexDigits == <<"0","1","2","3","4","5","6","7","8","9","a","b","c","d","e","f">>

IndexOf(seq, c) == CHOOSE i \in 1..Len(seq) : seq[i] = c
InSeq(seq, c) == \E i \in 1..Len(seq) : seq[i] = c

\* strings.ToLower
LowerChar(c) == IF InSeq(Upper, c) THEN Lower[IndexOf(Upper, c)] ELSE c
ToLower(s) == [i \in 1..Len(s) |-> LowerChar(s[i])]

\* strings.TrimPrefix
TrimPrefix(s, p) ==
    IF Len(s) >= Len(p) /\ SubSeq(s, 1, Len(p)) = p
    THEN SubSeq(s, Len(p) + 1, Len(s))
    ELSE s

\* filepath.Ext: the suffix beginning at the final dot in the final
\* element of the path; empty if there is no dot.
RECURSIVE ExtFrom(_, _)
ExtFrom(path, i) ==
    IF i < 1 \/ path[i] = "/" THEN <<>>
    ELSE IF path[i] = "." THEN SubSeq(path, i, Len(path))
    ELSE ExtFrom(path, i - 1)
Ext(path) == ExtFrom(path, Len(path))

\* strings.Split(s, sep) for a one-character separator.
RECURSIVE Split(_, _)
Split(s, sep) ==
    IF ~InSeq(s, sep) THEN <<s>>
    ELSE LET i == CHOOSE k \in 1..Len(s) :
                     s[k] = sep /\ \A j \in 1..(k - 1) : s[j] # sep
         IN  <<SubSeq(s, 1, i - 1)>> \o Split(SubSeq(s, i + 1, Len(s)), sep)

\* Value of a string of decimal digits.
RECURSIVE DecimalValue(_)
DecimalValue(s) ==
    IF s = <<>> THEN 0
    ELSE 10 * DecimalValue(SubSeq(s, 1, Len(s) - 1))
         + (IndexOf(Digits, s[Len(s)]) - 1)

\* strconv.Atoi: optional sign, then at least one decimal digit.
Atoi(s) ==
    LET signed == Len(s) > 0 /\ s[1] \in {"-", "+"}
        body   == IF signed THEN SubSeq(s, 2, Len(s)) ELSE s
        good   == Len(body) >= 1 /\ \A i \in 1..Len(body) : InSeq(Digits, body[i])
    IN  IF ~good THEN [ok |-> FALSE, val |-> 0]
        ELSE [ok |-> TRUE,
              val |-> IF signed /\ s[1] = "-" THEN 0 - DecimalValue(body)
                      ELSE DecimalValue(body)]

\* strconv.ParseUint(s, 16, 8) for a two-character string.
ParseHexByte(s) ==
    LET l == ToLower(s)
    IN  IF \A i \in 1..Len(l) : InSeq(HexDigits, l[i])
        THEN [ok |-> TRUE,
              val |-> 16 * (IndexOf(HexDigits, l[1]) - 1) + (IndexOf(HexDigits, l[2]) - 1)]
        ELSE [ok |-> FALSE, val |-> 0]

--------------------------------------------------------------------------
(* Format names.                                                           *)

s_jpg  == <<"j","p","g">>
s_jpeg == <<"j","p","e","g">>
s_png  == <<"p","n","g">>
s_gif  == <<"g","i","f">>
s_bmp  == <<"b","m","p">>
s_tiff == <<"t","i","f","f">>
s_tif  == <<"t","i","f">>
s_webp == <<"w","e","b","p">>
s_avif == <<"a","v","i","f">>
s_ico  == <<"i","c","o">>
s_icns == <<"i","c","n","s">>
s_heic == <<"h","e","i","c">>
s_heif == <<"h","e","i","f">>
s_jxl  == <<"j","x","l">>
s_jp2  == <<"j","p","2">>
s_txt  == <<"t","x","t">>
s_PNG  == <<"P","N","G">>
s_Jpg  == <<"J","p","g">>
s_HEIC == <<"H","E","I","C">>

\* ResizeMode constants.
ResizeModeFit     == "fit"
ResizeModeFill    == "fill"
ResizeModeStretch == "stretch"

\* DefaultOptions()
DefaultOptions ==
    [Width |-> 800, Height |-> 600, ResizeMode |-> ResizeModeFit,
     Quality |-> 85, OutputFormat |-> <<>>, PadColor |-> <<255, 255, 255>>]

--------------------------------------------------------------------------
(* cmd/root.go: RunE.                                                      *)

RunEError == [ok |-> FALSE, inputFile |-> <<>>, outputFile |-> <<>>,
              options |-> DefaultOptions]

\* The pad colour parsed from the --pad-color string.
ParsePadColor(padColor) ==
    IF padColor # <<>> THEN
        LET p == TrimPrefix(padColor, <<"#">>)
        IN  IF Len(p) = 6 THEN
                LET r == ParseHexByte(SubSeq(p, 1, 2))
                    g == ParseHexByte(SubSeq(p, 3, 4))
                    b == ParseHexByte(SubSeq(p, 5, 6))
                IN  IF ~r.ok \/ ~g.ok \/ ~b.ok
                    THEN [ok |-> FALSE, rgb |-> <<0, 0, 0>>]
                    ELSE [ok |-> TRUE, rgb |-> <<r.val, g.val, b.val>>]
            ELSE [ok |-> FALSE, rgb |-> <<0, 0, 0>>]
    ELSE [ok |-> TRUE, rgb |-> <<255, 255, 255>>]

\* The resize mode parsed from the --mode string.
ParseMode(resizeMode) ==
    LET m == ToLower(resizeMode)
    IN  IF m = <<"f","i","t">> THEN [ok |-> TRUE, mode |-> ResizeModeFit]
        ELSE IF m = <<"f","i","l","l">> THEN [ok |-> TRUE, mode |-> ResizeModeFill]
        ELSE IF m = <<"s","t","r","e","t","c","h">>
             THEN [ok |-> TRUE, mode |-> ResizeModeStretch]
        ELSE [ok |-> FALSE, mode |-> ""]

\* Width and height after the --size string has been applied.
ParseSize(size, width, height) ==
    IF size # <<>> THEN
        LET parts == Split(size, "x")
        IN  IF Len(parts) # 2 THEN [ok |-> FALSE, width |-> width, height |-> height]
            ELSE LET w == Atoi(parts[1])
                     h == Atoi(parts[2])
                 IN  IF ~w.ok \/ ~h.ok
                     THEN [ok |-> FALSE, width |-> width, height |-> height]
                     ELSE [ok |-> TRUE, width |-> w.val, height |-> h.val]
    ELSE [ok |-> TRUE, width |-> width, height |-> height]

\* What RunE does with the flag variables c and the positional arguments:
\* either an error, or the arguments of its call of ProcessImage.
RunEResult(c) ==
    LET n    == Len(c.args)
        inF  == IF n = 2 THEN c.args[1] ELSE c.inputFile
        outF == IF n = 2 THEN c.args[2]
                ELSE IF n = 1 THEN c.args[1] ELSE c.outputFile
        sz   == ParseSize(c.size, c.width, c.height)
        md   == ParseMode(c.resizeMode)
        pad  == ParsePadColor(c.padColor)
    IN  IF n > 2 THEN RunEError
        ELSE IF inF = <<>> THEN RunEError
        ELSE IF outF = <<>> THEN RunEError
        ELSE IF ~sz.ok THEN RunEError
        ELSE IF ~md.ok THEN RunEError
        ELSE IF ~pad.ok THEN RunEError
        ELSE [ok |-> TRUE, inputFile |-> inF, outputFile |-> outF,
              options |-> [Width |-> sz.width, Height |-> sz.height,
                           ResizeMode |-> md.mode, Quality |-> c.quality,
                           OutputFormat |-> c.outputFormat,
                           PadColor |-> pad.rgb]]

--------------------------------------------------------------------------
(* Images and the operations of the imaging library that ProcessImage      *)
(* calls.  An image is w x h; the rectangle [x0, x0+iw) x [y0, y0+ih)      *)
(* holds pixels that come from the source (colour fg), every other pixel   *)
(* has colour bg.  Colours are <<R, G, B, A>>.                             *)

ZeroColor == <<0, 0, 0, 0>>

\* The colour of the test image of TestProcessImage: opaque red.
TestColor == <<255, 0, 0, 255>>

\* &image.NRGBA{}
EmptyImage == [w |-> 0, h |-> 0, x0 |-> 0, y0 |-> 0, iw |-> 0, ih |-> 0,
               fg |-> ZeroColor, bg |-> ZeroColor]

\* An image all of whose pixels come from the source.
Plain(w, h, fg) == [w |-> w, h |-> h, x0 |-> 0, y0 |-> 0, iw |-> w, ih |-> h,
                    fg |-> fg, bg |-> ZeroColor]

IsEmptyImage(img) == img.w <= 0 \/ img.h <= 0

Max(a, b) == IF a >= b THEN a ELSE b
Min(a, b) == IF a <= b THEN a ELSE b

\* Go's integer division truncates toward zero.
GoDiv(a, b) == IF a >= 0 THEN a \div b ELSE 0 - ((0 - a) \div b)

\* int(math.Max(1.0, math.Floor(n/d + 0.5)))
RoundMin1(n, d) == Max(1, (2 * n + d) \div (2 * d))

\* imaging.Resize(img, width, height, filter)
Resize(img, width, height) ==
    IF width < 0 \/ height < 0 THEN EmptyImage
    ELSE IF width = 0 /\ height = 0 THEN EmptyImage
    ELSE IF img.w <= 0 \/ img.h <= 0 THEN EmptyImage
    ELSE LET dstW == IF width = 0 THEN RoundMin1(height * img.w, img.h) ELSE width
             dstH == IF height = 0 THEN RoundMin1(dstW * img.h, img.w) ELSE height
         IN  Plain(dstW, dstH, img.fg)

\* Fit as it would be if it also scaled small sources up to the box.
FitUpscales(img, width, height) ==
    IF width <= 0 \/ height <= 0 THEN EmptyImage
    ELSE IF img.w <= 0 \/ img.h <= 0 THEN EmptyImage
    ELSE IF img.w * height > width * img.h
         THEN Resize(img, width, (width * img.h) \div img.w)
         ELSE Resize(img, (height * img.w) \div img.h, height)

\* imaging.Fit(img, width, height, filter): scales down to fit the box,
\* never up.
Fit(img, width, height) ==
    IF width <= 0 \/ height <= 0 THEN EmptyImage
    ELSE IF img.w <= 0 \/ img.h <= 0 THEN EmptyImage
    ELSE IF img.w <= width /\ img.h <= height THEN img
    ELSE IF img.w * height > width * img.h
         THEN Resize(img, width, (width * img.h) \div img.w)
         ELSE Resize(img, (height * img.w) \div img.h, height)

\* image.Rectangle.Intersect of [ax0, ax1) x [ay0, ay1) with the bounds
\* [0, w) x [0, h); the zero rectangle when the intersection is empty.
IntersectBounds(ax0, ay0, ax1, ay1, w, h) ==
    LET x0 == Max(ax0, 0)
        y0 == Max(ay0, 0)
        x1 == Min(ax1, w)
        y1 == Min(ay1, h)
    IN  IF x0 >= x1 \/ y0 >= y1
        THEN [x0 |-> 0, y0 |-> 0, x1 |-> 0, y1 |-> 0]
        ELSE [x0 |-> x0, y0 |-> y0, x1 |-> x1, y1 |-> y1]

\* imaging.CropAnchor(img, width, height, imaging.Center) of an image
\* without padding.
CropCenter(img, width, height) ==
    LET px == GoDiv(img.w - width, 2)
        py == GoDiv(img.h - height, 2)
        b  == IntersectBounds(px, py, px + width, py + height, img.w, img.h)
    IN  IF b.x0 >= b.x1 \/ b.y0 >= b.y1 THEN EmptyImage
        ELSE Plain(b.x1 - b.x0, b.y1 - b.y0, img.fg)

\* imaging.Fill(img, width, height, imaging.Center, filter): sources of
\* at least 100x100 are cropped and then resized, smaller ones resized and
\* then cropped.
Fill(img, width, height) ==
    IF width <= 0 \/ height <= 0 THEN EmptyImage
    ELSE IF img.w <= 0 \/ img.h <= 0 THEN EmptyImage
    ELSE IF img.w = width /\ img.h = height THEN img
    ELSE IF img.w >= 100 /\ img.h >= 100 THEN
        \* cropAndResize
        LET tmp == IF img.w * height < width * img.h
                   THEN CropCenter(img, img.w,
                            IF img.w * height < width THEN 1
                            ELSE (2 * img.w * height + width) \div (2 * width))
                   ELSE CropCenter(img,
                            IF img.h * width < height THEN 1
                            ELSE (2 * img.h * width + height) \div (2 * height),
                            img.h)
        IN  Resize(tmp, width, height)
    ELSE
        \* resizeAndCrop
        LET tmp == IF img.w * height < width * img.h
                   THEN Resize(img, width, 0)
                   ELSE Resize(img, 0, height)
        IN  CropCenter(tmp, width, height)

\* imaging.New(width, height, fillColor)
New(width, height, fillColor) ==
    IF width <= 0 \/ height <= 0 THEN EmptyImage
    ELSE [w |-> width, h |-> height, x0 |-> 0, y0 |-> 0, iw |-> 0, ih |-> 0,
          fg |-> ZeroColor, bg |-> fillColor]

\* imaging.Paste(background, img, pos) for a background of one colour and
\* an image without padding.
Paste(background, img, px, py) ==
    LET r == IntersectBounds(px, py, px + img.w, py + img.h,
                             background.w, background.h)
    IN  IF r.x0 >= r.x1 \/ r.y0 >= r.y1 THEN background
        ELSE IF r.x0 = 0 /\ r.y0 = 0 /\ r.x1 = background.w /\ r.y1 = background.h
             THEN img
        ELSE [w |-> background.w, h |-> background.h,
              x0 |-> r.x0, y0 |-> r.y0,
              iw |-> r.x1 - r.x0, ih |-> r.y1 - r.y0,
              fg |-> img.fg, bg |-> background.bg]

\* PasteCenter as it would be if it pasted at the top left corner.
PasteTopLeft(background, img) == Paste(background, img, 0, 0)

\* imaging.PasteCenter(background, img)
PasteCenter(background, img) ==
    Paste(background, img,
          GoDiv(background.w, 2) - GoDiv(img.w, 2),
          GoDiv(background.h, 2) - GoDiv(img.h, 2))

\* The colour of the pixel (x, y) of an image, 0 <= x < w, 0 <= y < h.
PixelAt(img, x, y) ==
    IF img.x0 <= x /\ x < img.x0 + img.iw /\ img.y0 <= y /\ y < img.y0 + img.ih
    THEN img.fg
    ELSE img.bg

\* color.RGBA{R, G, B, A: 255} of the pad colour.
BgColor(padColor) == <<padColor[1], padColor[2], padColor[3], 255>>

\* The Fit case of ProcessImage: fit, then pad to the box if needed.
FitAndPad(img, opts) ==
    LET fitted == Fit(img, opts.Width, opts.Height)
    IN  IF fitted.w < opts.Width \/ fitted.h < opts.Height
        THEN PasteCenter(New(opts.Width, opts.Height, BgColor(opts.PadColor)), fitted)
        ELSE fitted

\* The resize switch of ProcessImage.
KnownMode(mode) == mode \in {ResizeModeFit, ResizeModeFill, ResizeModeStretch}

ResizeImage(img, opts) ==
    IF opts.ResizeMode = ResizeModeFit THEN FitAndPad(img, opts)
    ELSE IF opts.ResizeMode = ResizeModeFill THEN Fill(img, opts.Width, opts.Height)
    ELSE Resize(img, opts.Width, opts.Height)

--------------------------------------------------------------------------
(* pkg/image: decoder and encoder dispatch.                                *)

\* The decode routine the switch of OpenImage selects for an extension
\* (already lower-cased, without the dot); "jp2" and "" stand for the two
\* cases that return an error without decoding.
DecoderFor(ext) ==
    IF ext \in {s_jpg, s_jpeg, s_png, s_gif, s_bmp, s_tiff, s_tif} THEN "imaging.Open"
    ELSE IF ext = s_webp THEN "webp.Decode"
    ELSE IF ext = s_avif THEN "avif.Decode"
    ELSE IF ext = s_ico THEN "ico.Decode"
    ELSE IF ext = s_icns THEN "icns.Decode"
    ELSE IF ext \in {s_heic, s_heif} THEN "decodeHEIF"
    ELSE IF ext = s_jxl THEN "jxl_go.Decode"
    ELSE IF ext = s_jp2 THEN "jp2"
    ELSE ""

\* decodeHEIF as it would be if every build called goheif.Decode.
DecodeHEIFAnyBuild(kind, build) == kind = "heif"

\* decodeHEIF: goheif.Decode in a cgo build, a stub that always fails in a
\* build without cgo.
DecodeHEIF(kind, build) == build /\ kind = "heif"

\* Whether a decode routine succeeds on a file of the given content.
\* imaging.Open detects the content among the formats registered with the
\* image package; every other routine decodes its own format only.
DecodeSucceeds(routine, kind, build) ==
    IF routine = "imaging.Open" THEN kind \in {"jpeg", "png", "gif", "tiff", "bmp"}
    ELSE IF routine = "webp.Decode" THEN kind = "webp"
    ELSE IF routine = "avif.Decode" THEN kind = "avif"
    ELSE IF routine = "ico.Decode" THEN kind = "ico"
    ELSE IF routine = "icns.Decode" THEN kind = "icns"
    ELSE IF routine = "decodeHEIF" THEN DecodeHEIF(kind, build)
    ELSE IF routine = "jxl_go.Decode" THEN kind = "jxl"
    ELSE FALSE

\* The encode routine the switch of ProcessImage selects for a format name
\* (already lower-cased); "unsupported" for heic, heif, jxl and jp2, ""
\* for the default case.
EncoderFor(format) ==
    IF format \in {s_jpg, s_jpeg} THEN "jpeg.Encode"
    ELSE IF format = s_png THEN "png.Encode"
    ELSE IF format = s_gif THEN "gif.Encode"
    ELSE IF format = s_bmp THEN "bmp.Encode"
    ELSE IF format \in {s_tiff, s_tif} THEN "tiff.Encode"
    ELSE IF format = s_webp THEN "webp.Encode"
    ELSE IF format = s_avif THEN "avif.Encode"
    ELSE IF format = s_ico THEN "ico.Encode"
    ELSE IF format = s_icns THEN "icns.Encode"
    ELSE IF format \in {s_heic, s_heif, s_jxl, s_jp2} THEN "unsupported"
    ELSE ""

\* The outcomes of an encode routine: any routine can fail (a write
\* error); png.Encode rejects an image without pixels.
EncodeOutcomes(routine, img) ==
    IF routine = "png.Encode" /\ IsEmptyImage(img) THEN {FALSE} ELSE BOOLEAN

\* DetermineFormat as it would be if the extension of the path won over an
\* explicit format.
DetermineFormatPathFirst(outputFormat, path) ==
    LET e == TrimPrefix(Ext(path), <<".">>)
    IN  IF e # <<>> THEN e
        ELSE IF outputFormat # <<>> THEN outputFormat
        ELSE s_jpg

\* The output format ProcessImage settles on before resizing.
DetermineFormat(outputFormat, path) ==
    IF outputFormat = <<>> THEN
        LET e == TrimPrefix(Ext(path), <<".">>)
        IN  IF e = <<>> THEN s_jpg ELSE e
    ELSE outputFormat

--------------------------------------------------------------------------
(* The run.                                                                *)

NoHandles == [in |-> 0, out |-> 0]

\* Close as it would be if it were called at the end of the function
\* instead of deferred: a return inside the switch would skip it.
CloseAtEnd(n, early) == IF early THEN n ELSE n - 1

\* defer file.Close() / defer out.Close(): the handle is closed once, by
\* whichever return leaves the function, a return inside the switch (early)
\* as well as the return at its end.
DeferredClose(n, early) == n - 1

\* RunE: reject the command line, or call ProcessImage.
RunE ==
    /\ pc = "start"
    /\ req.entry = "cli"
    /\ LET r == RunEResult(req.cli)
       IN  IF r.ok
           THEN /\ pc' = "open"
                /\ inputPath' = r.inputFile
                /\ outputPath' = r.outputFile
                /\ options' = r.options
                /\ err' = err
           ELSE /\ pc' = "rejected"
                /\ err' = "InvalidArgument"
                /\ UNCHANGED <<inputPath, outputPath, options>>
    /\ UNCHANGED <<cgo, req, inFile, outFile, src, resized, did, handles>>

\* A direct call of ProcessImage (as TestProcessImage makes).
CallProcessImage ==
    /\ pc = "start"
    /\ req.entry = "api"
    /\ pc' = "open"
    /\ inputPath' = req.api.inputPath
    /\ outputPath' = req.api.outputPath
    /\ options' = req.api.options
    /\ UNCHANGED <<cgo, req, inFile, outFile, src, resized, err, did, handles>>

\* OpenImage: os.Open(filename).
OsOpen ==
    /\ pc = "open"
    /\ did' = did \cup {<<"os.Open">>}
    /\ IF inFile.exists
       THEN /\ pc' = "decode"
            /\ handles' = [handles EXCEPT !.in = @ + 1]
            /\ err' = err
       ELSE /\ pc' = "failed"
            /\ err' = "IOError"
            /\ handles' = handles
    /\ UNCHANGED <<cgo, req, inputPath, outputPath, options, inFile, outFile,
                   src, resized>>

\* OpenImage: the switch on the extension, and the deferred file.Close().
\* imaging.Open opens and closes a handle of its own within this step; the
\* file.Seek before jxl_go.Decode rewinds a regular file that was just
\* opened and does not fail.
Decode ==
    /\ pc = "decode"
    /\ LET ext     == ToLower(TrimPrefix(Ext(inputPath), <<".">>))
           routine == DecoderFor(ext)
       IN  IF routine \in {"jp2", ""}
           THEN /\ pc' = "failed"
                /\ err' = "UnsupportedFormat"
                /\ UNCHANGED <<src, did>>
           ELSE /\ did' = did \cup {<<"decode", routine>>}
                /\ IF DecodeSucceeds(routine, inFile.kind, cgo)
                   THEN /\ pc' = "resize"
                        /\ src' = Plain(inFile.w, inFile.h, TestColor)
                        /\ err' = err
                   ELSE /\ pc' = "failed"
                        /\ err' = "DecodeError"
                        /\ src' = src
    /\ LET routine == DecoderFor(ToLower(TrimPrefix(Ext(inputPath), <<".">>)))
           early   == routine \in {"imaging.Open", "jp2", ""}
       IN  handles' = [handles EXCEPT !.in = DeferredClose(@, early)]
    /\ UNCHANGED <<cgo, req, inputPath, outputPath, options, inFile, outFile,
                   resized>>

\* ResizeStep as it would be if the default case of the resize switch did
\* not return.
ResizeStepNoReturn ==
    /\ pc = "resize"
    /\ options' = [options EXCEPT
                     !.OutputFormat = DetermineFormat(options.OutputFormat, outputPath)]
    /\ pc' = "create"
    /\ IF KnownMode(options.ResizeMode)
       THEN /\ resized' = ResizeImage(src, options)
            /\ did' = did \cup {<<"resize">>}
       ELSE UNCHANGED <<resized, did>>
    /\ UNCHANGED <<cgo, req, inputPath, outputPath, inFile, outFile, src, handles, err>>

\* ProcessImage: settle the output format, then the resize switch.
ResizeStep ==
    /\ pc = "resize"
    /\ options' = [options EXCEPT
                     !.OutputFormat = DetermineFormat(options.OutputFormat, outputPath)]
    /\ IF KnownMode(options.ResizeMode)
       THEN /\ pc' = "create"
            /\ resized' = ResizeImage(src, options)
            /\ did' = did \cup {<<"resize">>}
            /\ err' = err
       ELSE /\ pc' = "failed"
            /\ err' = "UnknownMode"
            /\ UNCHANGED <<resized, did>>
    /\ UNCHANGED <<cgo, req, inputPath, outputPath, inFile, outFile, src, handles>>

\* ProcessImage: os.Create(outputPath); it fails when the path cannot be
\* created (a missing directory, no permission).
OsCreate ==
    /\ pc = "create"
    /\ did' = did \cup {<<"os.Create">>}
    /\ \E ok \in BOOLEAN :
          IF ok
          THEN /\ pc' = "encode"
               /\ outFile' = [state |-> "empty", codec |-> "", img |-> EmptyImage]
               /\ handles' = [handles EXCEPT !.out = @ + 1]
               /\ err' = err
          ELSE /\ pc' = "failed"
               /\ err' = "IOError"
               /\ UNCHANGED <<outFile, handles>>
    /\ UNCHANGED <<cgo, req, inputPath, outputPath, options, inFile, src, resized>>

\* ProcessImage: the switch on the output format, and the deferred
\* out.Close().  An encode routine either writes the whole file or fails
\* after writing part of it.
Encode ==
    /\ pc = "encode"
    /\ LET routine == EncoderFor(ToLower(options.OutputFormat))
       IN  IF routine = "unsupported"
           THEN /\ pc' = "failed"
                /\ err' = "EncodeUnsupported"
                /\ UNCHANGED <<outFile, did>>
           ELSE IF routine = ""
           THEN /\ pc' = "failed"
                /\ err' = "UnsupportedFormat"
                /\ UNCHANGED <<outFile, did>>
           ELSE /\ did' = did \cup {<<"encode", routine>>}
                /\ \E ok \in EncodeOutcomes(routine, resized) :
                      IF ok
                      THEN /\ pc' = "done"
                           /\ outFile' = [state |-> "complete", codec |-> routine,
                                          img |-> resized]
                           /\ err' = err
                      ELSE /\ pc' = "failed"
                           /\ outFile' = [state |-> "partial", codec |-> routine,
                                          img |-> EmptyImage]
                           /\ err' = "EncodeError"
    /\ LET early == EncoderFor(ToLower(options.OutputFormat)) \in {"unsupported", ""}
       IN  handles' = [handles EXCEPT !.out = DeferredClose(@, early)]
    /\ UNCHANGED <<cgo, req, inputPath, outputPath, options, inFile, src, resized>>

Next ==
    \/ RunE
    \/ CallProcessImage
    \/ OsOpen
    \/ Decode
    \/ ResizeStep
    \/ OsCreate
    \/ Encode

--------------------------------------------------------------------------
(* Requests, files and initial states.                                     *)

InName  == <<"a">>
OutName == <<"o">>
WithExt(name, ext) == name \o <<".">> \o ext

AllExts == {s_jpg, s_jpeg, s_png, s_gif, s_bmp, s_tiff, s_tif, s_webp, s_avif,
            s_ico, s_icns, s_heic, s_heif, s_jxl, s_jp2}

\* A directory with a dot in its name, holding a file without extension.
DottedDir == <<"d", ".", "p", "n", "g", "/">>

InputPaths ==
    {WithExt(InName, e) : e \in AllExts \cup {s_txt, s_PNG, s_HEIC}}
    \cup {InName, DottedDir \o InName}

OutputPaths ==
    {WithExt(OutName, e) : e \in AllExts \cup {s_txt, s_PNG, s_HEIC}}
    \cup {OutName, OutName \o <<".">>, DottedDir \o OutName}

\* The content a file of a given extension normally has.
KindOf(ext) ==
    IF ext \in {s_jpg, s_jpeg} THEN "jpeg"
    ELSE IF ext = s_png THEN "png"
    ELSE IF ext = s_gif THEN "gif"
    ELSE IF ext = s_bmp THEN "bmp"
    ELSE IF ext \in {s_tiff, s_tif} THEN "tiff"
    ELSE IF ext = s_webp THEN "webp"
    ELSE IF ext = s_avif THEN "avif"
    ELSE IF ext = s_ico THEN "ico"
    ELSE IF ext = s_icns THEN "icns"
    ELSE IF ext \in {s_heic, s_heif} THEN "heif"
    ELSE IF ext = s_jxl THEN "jxl"
    ELSE IF ext = s_jp2 THEN "jp2"
    ELSE "png"

MissingFile == [exists |-> FALSE, kind |-> "none", w |-> 0, h |-> 0]
ImageFile(kind, w, h) == [exists |-> TRUE, kind |-> kind, w |-> w, h |-> h]

NoCli == [args |-> <<>>, inputFile |-> <<>>, outputFile |-> <<>>,
          width |-> 0, height |-> 0, size |-> <<>>, resizeMode |-> <<>>,
          quality |-> 0, outputFormat |-> <<>>, padColor |-> <<>>]
NoApi == [inputPath |-> <<>>, outputPath |-> <<>>, options |-> DefaultOptions]

ApiReq(i, o, opts) ==
    [entry |-> "api", cli |-> NoCli,
     api |-> [inputPath |-> i, outputPath |-> o, options |-> opts]]
CliReq(c) == [entry |-> "cli", cli |-> c, api |-> NoApi]

Opts(w, h, mode, q, fmt, pad) ==
    [Width |-> w, Height |-> h, ResizeMode |-> mode, Quality |-> q,
     OutputFormat |-> fmt, PadColor |-> pad]

White == <<255, 255, 255>>
Red   == <<255, 0, 0>>

a_png == WithExt(InName, s_png)
o_png == WithExt(OutName, s_png)

\* The command line "nim a.png o.png -s 2x1" with every flag at a valid
\* value.
PlainCli ==
    [args |-> <<a_png, o_png>>, inputFile |-> <<>>, outputFile |-> <<>>,
     width |-> 2, height |-> 2, size |-> <<"2", "x", "1">>,
     resizeMode |-> <<"f", "i", "t">>, quality |-> 85,
     outputFormat |-> <<>>, padColor |-> <<"#", "F", "F", "F", "F", "F", "F">>]

\* One run through each entry point, and a direct call with a resize mode
\* that is none of the three constants.
BaseScenarios ==
    {[req |-> CliReq(PlainCli), inFile |-> ImageFile("png", 2, 1)],
     [req |-> ApiReq(a_png, o_png, Opts(2, 2, ResizeModeFit, 90, s_png, White)),
      inFile |-> ImageFile("png", 1, 1)],
     [req |-> ApiReq(a_png, o_png, Opts(2, 2, "crop", 90, s_png, White)),
      inFile |-> ImageFile("png", 1, 1)]}

\* Format dispatch: every input extension against a few outputs and every
\* output extension against a few inputs, explicit formats, present/missing
\* and valid/invalid input files.
ExplicitFormats == {<<>>, s_png, s_Jpg, s_heic, s_txt}
FewInputs  == {a_png, WithExt(InName, s_heic), WithExt(InName, s_jp2)}
FewOutputs == {o_png, WithExt(OutName, s_heic)}

FilesFor(path) ==
    {MissingFile,
     ImageFile(KindOf(ToLower(TrimPrefix(Ext(path), <<".">>))), 2, 1),
     ImageFile("junk", 2, 1)}

FormatScenario(i, o, f, file) ==
    [req |-> ApiReq(i, o, Opts(2, 2, ResizeModeFit, 90, f, White)), inFile |-> file]

\* Resize geometry: targets and sources, small and of the size of the
\* test image.
TargetDims == (-1 .. MaxDim) \cup {TestSize}
SourceDims == (1 .. MaxSrc) \cup {TestSize \div 2, TestSize}

\* Command-line strings.
SizeStrings ==
    {<<>>, <<"2", "x", "1">>, <<"0", "x", "1">>, <<"-", "1", "x", "2">>,
     <<"2">>, <<"a", "x", "2">>, <<"2", "x">>, <<"1", "x", "2", "x", "3">>,
     <<"1", "0", "x", "+", "3">>}
ModeStrings ==
    {<<"f", "i", "t">>, <<"F", "i", "l", "l">>,
     <<"s", "t", "r", "e", "t", "c", "h">>, <<"c", "r", "o", "p">>, <<>>}
PadStrings ==
    {<<>>, <<"#", "F", "F", "0", "0", "0", "0">>, <<"0", "0", "0", "0", "f", "f">>,
     <<"#", "F", "F", "F">>, <<"#", "G", "G", "0", "0", "0", "0">>,
     <<"r", "e", "d">>}
ArgLists == {<<>>, <<o_png>>, <<a_png, o_png>>, <<a_png, o_png, o_png>>}

AbsentFile == [state |-> "absent", codec |-> "", img |-> EmptyImage]
OldFile    == [state |-> "old", codec |-> "", img |-> EmptyImage]

InitWith(s, builds, outFiles) ==
    /\ req = s.req
    /\ inFile = s.inFile
    /\ cgo \in builds
    /\ outFile \in outFiles
    /\ pc = "start"
    /\ inputPath = <<>>
    /\ outputPath = <<>>
    /\ options = DefaultOptions
    /\ src = EmptyImage
    /\ resized = EmptyImage
    /\ err = ""
    /\ did = {}
    /\ handles = NoHandles

InitBase(builds, outFiles) ==
    \E s \in BaseScenarios : InitWith(s, builds, outFiles)

\* Format dispatch in both builds, over an absent and an existing output.
Init ==
    \/ InitBase(BOOLEAN, {AbsentFile, OldFile})
    \/ \E i \in InputPaths, o \in FewOutputs, f \in ExplicitFormats :
          \E file \in FilesFor(i) :
             InitWith(FormatScenario(i, o, f, file), BOOLEAN, {AbsentFile, OldFile})
    \/ \E i \in FewInputs, o \in OutputPaths, f \in ExplicitFormats :
          \E file \in FilesFor(i) :
             InitWith(FormatScenario(i, o, f, file), BOOLEAN, {AbsentFile, OldFile})
Spec == Init /\ [][Next]_vars

\* Resize geometry.
InitResize ==
    \/ InitBase({TRUE}, {AbsentFile})
    \/ \E w \in TargetDims, h \in TargetDims,
          m \in {ResizeModeFit, ResizeModeFill, ResizeModeStretch},
          pad \in {White, Red},
          sw \in SourceDims, sh \in SourceDims :
          InitWith([req |-> ApiReq(a_png, o_png, Opts(w, h, m, 90, <<>>, pad)),
                    inFile |-> ImageFile("png", sw, sh)], {TRUE}, {AbsentFile})
SpecResize == InitResize /\ [][Next]_vars

\* Command lines: the ways of naming the files with every flag valid, and
\* the values of the flags with the files named.
InitCli ==
    \/ InitBase({TRUE}, {AbsentFile})
    \/ \E args \in ArgLists, inF \in {<<>>, a_png}, outF \in {<<>>, o_png} :
          InitWith([req |-> CliReq([PlainCli EXCEPT !.args = args,
                                      !.inputFile = inF, !.outputFile = outF]),
                    inFile |-> ImageFile("png", 2, 1)], {TRUE}, {AbsentFile})
    \/ \E w \in {-1, 0, MaxDim}, h \in {0, MaxDim}, size \in SizeStrings,
          mode \in ModeStrings, q \in {0, 1, 85, 100, 101}, pad \in PadStrings :
          InitWith([req |-> CliReq([PlainCli EXCEPT !.width = w, !.height = h,
                                      !.size = size, !.resizeMode = mode,
                                      !.quality = q, !.padColor = pad]),
                    inFile |-> ImageFile("png", 2, 1)], {TRUE}, {AbsentFile})
SpecCli == InitCli /\ [][Next]_vars

--------------------------------------------------------------------------
(* Vocabulary of the properties.                                           *)

\* The stage of the pipeline the run is in.
Stage ==
    IF pc = "start" THEN "Idle"
    ELSE IF pc \in {"open", "decode"} THEN "Decoding"
    ELSE IF pc = "resize" THEN "Resizing"
    ELSE IF pc \in {"create", "encode"} THEN "Encoding"
    ELSE IF pc = "done" THEN "Done"
    ELSE IF pc = "failed" THEN "Failed"
    ELSE "Rejected"

\* ProcessImage has been called.
Called == pc \notin {"start", "rejected"}
Terminal == pc \in {"done", "failed", "rejected"}

\* The output file is as it was before the run.
OutputUntouched == outFile.state \in {"absent", "old"}

\* The extension of a path, stated without reference to the scan of
\* filepath.Ext: the text after a dot that is followed by no dot and no
\* separator.
IsExtDot(path, i) ==
    /\ path[i] = "."
    /\ \A j \in (i + 1)..Len(path) : path[j] \notin {".", "/"}
PathExtension(path) ==
    IF \E i \in 1..Len(path) : IsExtDot(path, i)
    THEN SubSeq(path, (CHOOSE i \in 1..Len(path) : IsExtDot(path, i)) + 1, Len(path))
    ELSE <<>>

\* Equality of two names up to the case of their letters.
SameName(a, b) ==
    /\ Len(a) = Len(b)
    /\ \A i \in 1..Len(a) : a[i] = b[i] \/ LowerChar(a[i]) = LowerChar(b[i])

\* The OutputFormat the caller passed.
ExplicitFormat ==
    IF req.entry = "api" THEN req.api.options.OutputFormat ELSE req.cli.outputFormat

\* The effective output format: explicit, else the extension of the output
\* path, else JPEG.
EffectiveFormat ==
    IF ExplicitFormat # <<>> THEN ExplicitFormat
    ELSE IF PathExtension(outputPath) # <<>> THEN PathExtension(outputPath)
    ELSE s_jpg

Names(set, name) == \E n \in set : SameName(name, n)

\* The support matrix.
BothWays   == {s_jpg, s_jpeg, s_png, s_gif, s_bmp, s_tiff, s_tif, s_webp,
               s_avif, s_ico, s_icns}
DecodeOnly == {s_heic, s_heif, s_jxl}
Neither    == {s_jp2}

\* The codec behind each name of a format that can be encoded.
CodecOf(name) ==
    IF Names({s_jpg, s_jpeg}, name) THEN "jpeg.Encode"
    ELSE IF Names({s_png}, name) THEN "png.Encode"
    ELSE IF Names({s_gif}, name) THEN "gif.Encode"
    ELSE IF Names({s_bmp}, name) THEN "bmp.Encode"
    ELSE IF Names({s_tiff, s_tif}, name) THEN "tiff.Encode"
    ELSE IF Names({s_webp}, name) THEN "webp.Encode"
    ELSE IF Names({s_avif}, name) THEN "avif.Encode"
    ELSE IF Names({s_ico}, name) THEN "ico.Encode"
    ELSE IF Names({s_icns}, name) THEN "icns.Encode"
    ELSE "none"

DecodeRoutines == {d \in did : d[1] = "decode"}
EncodeRoutines == {d \in did : d[1] = "encode"}

\* The encoder switch of ProcessImage has been executed.
EncoderReached ==
    \/ pc = "done"
    \/ pc = "failed" /\ <<"os.Create">> \in did
                     /\ err \in {"EncodeUnsupported", "UnsupportedFormat", "EncodeError"}

--------------------------------------------------------------------------
(* C1                                                                      *)

\* C1: a run of ProcessImage whose effective output format is heic, heif,
\* jxl or jp2 ends in an error and never attempts a write: the output path
\* is never created, truncated or modified.
C1_DecodeOnlyOutputNeverWritten ==
    (Called /\ Names(DecodeOnly \cup Neither, EffectiveFormat))
        => /\ pc # "done"
           /\ OutputUntouched
           /\ (Terminal => err # "")

--------------------------------------------------------------------------
(* C2                                                                      *)

\* C2: OpenImage checks the format before it touches the file: a path
\* whose extension is unknown or jp2 fails with the unsupported-format
\* error without the file being opened, whether or not the file exists;
\* a path with a decodable extension and an unreadable file gives the I/O
\* error.
C2_FormatCheckedBeforeOpen ==
    Called =>
        IF Names(BothWays \cup DecodeOnly, PathExtension(inputPath))
        THEN (pc = "failed" /\ ~inFile.exists) => err = "IOError"
        ELSE /\ <<"os.Open">> \notin did
             /\ (Terminal => err = "UnsupportedFormat")

--------------------------------------------------------------------------
(* C3                                                                      *)

StageSteps ==
    {<<"Idle", "Decoding">>, <<"Idle", "Rejected">>,
     <<"Decoding", "Decoding">>, <<"Decoding", "Resizing">>, <<"Decoding", "Failed">>,
     <<"Resizing", "Encoding">>, <<"Resizing", "Failed">>,
     <<"Encoding", "Encoding">>, <<"Encoding", "Done">>, <<"Encoding", "Failed">>}

C3_Step ==
    /\ <<Stage, Stage'>> \in StageSteps
    /\ (Stage = "Decoding" /\ Stage' = "Resizing")
          => (DecodeRoutines' # {} /\ ~IsEmptyImage(src') /\ err' = "")
    /\ (Stage = "Resizing" /\ Stage' = "Encoding")
          => (<<"resize">> \in did' /\ KnownMode(options.ResizeMode) /\ err' = "")
    /\ (Stage = "Decoding" /\ Stage' = "Failed")
          => /\ <<"resize">> \notin did'
             /\ <<"os.Create">> \notin did'
             /\ EncodeRoutines' = {}
             /\ OutputUntouched'
             /\ err' # ""
    /\ (Stage = "Resizing" /\ Stage' = "Failed")
          => /\ <<"os.Create">> \notin did'
             /\ EncodeRoutines' = {}
             /\ OutputUntouched'
             /\ err' # ""
    /\ (Stage = "Encoding" /\ Stage' = "Failed") => err' # ""
    /\ Stage' = "Done"
          => /\ DecodeRoutines' # {}
             /\ <<"resize">> \in did'
             /\ EncodeRoutines' # {}
             /\ err' = ""
             /\ outFile'.state = "complete"

\* C3: a run moves through Idle, Decoding, Resizing, Encoding, Done in
\* this order; a failure in a stage moves it to Failed, after which
\* nothing happens: no resize and no output file after a decode failure,
\* no output file after a resize failure; Done only after all three
\* stages succeeded.
C3_StageOrder == [][C3_Step]_vars

\* A run that failed in the resize stage (unknown mode) after a
\* successful decode.
C3_Witness ==
    /\ pc = "failed"
    /\ err = "UnknownMode"
    /\ DecodeRoutines # {}
    /\ OutputUntouched

--------------------------------------------------------------------------
(* C4, C5, C6: the resize switch.                                          *)

\* The resize switch has produced the image for the encoder.
Resized == <<"resize">> \in did
FitRun  == Resized /\ options.ResizeMode = ResizeModeFit
BoxPositive == options.Width >= 1 /\ options.Height >= 1

\* The scaled source inside the output touches the box in one axis and
\* does not exceed it in the other.
TouchesBox(img) ==
    \/ img.iw = options.Width /\ img.ih <= options.Height
    \/ img.ih = options.Height /\ img.iw <= options.Width

\* The image has no pixel outside the scaled source.
NoPadding(img) == img.x0 = 0 /\ img.y0 = 0 /\ img.iw = img.w /\ img.ih = img.h

SameAspect == src.w * options.Height = src.h * options.Width
SourceFitsBox == src.w <= options.Width /\ src.h <= options.Height

Abs(n) == IF n < 0 THEN 0 - n ELSE n

\* C4 as claimed: in Fit mode the image is scaled so that one dimension
\* equals the target and the other is at most the target, for every
\* source size, also for a source smaller than the box; a source of the
\* aspect ratio of the box gives an output of the target size without any
\* pad pixel.
C4_FitTouchesBoxAlways ==
    (FitRun /\ BoxPositive)
        => /\ TouchesBox(resized)
           /\ SameAspect
                => (resized.w = options.Width /\ resized.h = options.Height
                    /\ NoPadding(resized))

\* C4 as amended: Fit only scales down.  A source larger than the box in
\* some axis is scaled, preserving its aspect ratio up to rounding, so that
\* one dimension equals the target and the other is at most the target; a
\* source that fits the box keeps its size.  A source of the aspect ratio of
\* the box gives an output of the target size, without pad pixels exactly
\* when the source is at least as large as the box.
C4_FitScalesDownOnly ==
    (FitRun /\ BoxPositive)
        => /\ SourceFitsBox => (resized.iw = src.w /\ resized.ih = src.h)
           /\ ~SourceFitsBox
                => \/ /\ resized.iw = options.Width
                      /\ resized.ih <= options.Height
                      /\ Abs(resized.ih * src.w - resized.iw * src.h) < src.w
                   \/ /\ resized.ih = options.Height
                      /\ resized.iw <= options.Width
                      /\ Abs(resized.iw * src.h - resized.ih * src.w) < src.h
           /\ SameAspect
                => /\ resized.w = options.Width /\ resized.h = options.Height
                   /\ NoPadding(resized) <=> (src.w >= options.Width)

\* A square source smaller than a square box: kept at its size and padded.
C4_Witness ==
    /\ FitRun
    /\ src.w = 1 /\ src.h = 1
    /\ options.Width = 2 /\ options.Height = 2
    /\ resized.w = 2 /\ resized.h = 2
    /\ resized.iw = 1 /\ resized.ih = 1

\* C5: in Fit mode, for every source and every positive target W x H, the
\* output is exactly W x H; where the scaled image is smaller than the box
\* it is centred (the two bands on an axis differ by at most one pixel) and
\* every pixel outside it has the RGB value of padColor with alpha 255;
\* when the scaled image is W x H there is no padding.
C5_FitPadsToBox ==
    (FitRun /\ BoxPositive)
        => /\ resized.w = options.Width
           /\ resized.h = options.Height
           /\ resized.x0 >= 0 /\ resized.x0 + resized.iw <= resized.w
           /\ resized.y0 >= 0 /\ resized.y0 + resized.ih <= resized.h
           /\ Abs(resized.x0 - (resized.w - resized.x0 - resized.iw)) <= 1
           /\ Abs(resized.y0 - (resized.h - resized.y0 - resized.ih)) <= 1
           /\ \A x \in 0..(resized.w - 1), y \in 0..(resized.h - 1) :
                 \/ /\ resized.x0 <= x /\ x < resized.x0 + resized.iw
                    /\ resized.y0 <= y /\ y < resized.y0 + resized.ih
                 \/ PixelAt(resized, x, y)
                      = <<options.PadColor[1], options.PadColor[2],
                          options.PadColor[3], 255>>
           /\ (resized.iw = options.Width /\ resized.ih = options.Height)
                 => resized = Plain(options.Width, options.Height, src.fg)

\* A 2x1 source fitted into 2x3 with pad colour red: bands above and below.
C5_Witness ==
    /\ FitRun
    /\ options.PadColor = Red
    /\ options.Width = 2 /\ options.Height = 3
    /\ resized.w = 2 /\ resized.h = 3
    /\ resized.iw = 2 /\ resized.ih = 1 /\ resized.y0 = 1
    /\ PixelAt(resized, 0, 0) = <<255, 0, 0, 255>>

\* C6: in Fill mode and in Stretch mode the output has exactly the
\* requested width and height, for every source and every width and height
\* the pipeline accepts; Fill never pads.
C6_FillStretchExact ==
    (pc = "done" /\ options.ResizeMode \in {ResizeModeFill, ResizeModeStretch})
        => /\ outFile.img.w = options.Width
           /\ outFile.img.h = options.Height
           /\ NoPadding(outFile.img)

--------------------------------------------------------------------------
(* C7: the output format.                                                  *)

\* C7: an explicit OutputFormat is used whatever the extension of the
\* output path; an empty one is replaced by the extension of the output
\* path (without the dot, compared case-insensitively), and by JPEG when
\* the path has no extension.
C7_FormatChoice ==
    /\ pc \in {"create", "encode", "done"} => options.OutputFormat = EffectiveFormat
    /\ EncoderReached
          => IF CodecOf(EffectiveFormat) = "none"
             THEN EncodeRoutines = {}
             ELSE EncodeRoutines = {<<"encode", CodecOf(EffectiveFormat)>>}
    /\ pc = "done" => outFile.codec = CodecOf(EffectiveFormat)

\* An explicit format "Jpg" with the output path o.png: written as JPEG.
C7_Witness ==
    /\ pc = "done"
    /\ ExplicitFormat = s_Jpg
    /\ PathExtension(outputPath) = s_png
    /\ outFile.codec = "jpeg.Encode"

--------------------------------------------------------------------------
(* C8, C9: the support matrix.                                             *)

InputExt == PathExtension(inputPath)

\* The switch of OpenImage has been executed on an opened file.
DecoderReached == Called /\ inFile.exists /\ pc \notin {"open", "decode"}

\* The input file holds what its extension says.
ValidInput == inFile.exists /\ inFile.kind = KindOf(ToLower(InputExt))

DecodedOk ==
    /\ ~(pc = "failed" /\ err = "DecodeError")
    /\ ~IsEmptyImage(src)
    /\ src.w = inFile.w /\ src.h = inFile.h

\* The dispatch follows the support matrix, HEIC/HEIF being decodable
\* where heifDecodes holds.
MatrixHolds(heifDecodes) ==
    /\ ~Names(BothWays \cup DecodeOnly, InputExt) => DecodeRoutines = {}
    /\ DecoderReached =>
          /\ Names(BothWays \cup DecodeOnly, InputExt)
                => /\ DecodeRoutines # {}
                   /\ (ValidInput /\ (Names({s_heic, s_heif}, InputExt) => heifDecodes))
                         => DecodedOk
          /\ ~Names(BothWays \cup DecodeOnly, InputExt)
                => (pc = "failed" /\ err = "UnsupportedFormat")
    /\ ~Names(BothWays, EffectiveFormat) => EncodeRoutines = {}
    /\ EncoderReached =>
          /\ Names(BothWays, EffectiveFormat) => EncodeRoutines # {}
          /\ Names(DecodeOnly \cup Neither, EffectiveFormat)
                => (pc = "failed" /\ err = "EncodeUnsupported")
          /\ ~Names(BothWays \cup DecodeOnly \cup Neither, EffectiveFormat)
                => (pc = "failed" /\ err = "UnsupportedFormat")

C9_PartialFormatsBecomePng ==
    /\ (DecoderReached /\ ValidInput /\ Names(DecodeOnly \cup Neither, InputExt))
          => DecodedOk
    /\ (EncoderReached /\ Names(DecodeOnly \cup Neither, EffectiveFormat)
          /\ err # "EncodeError")
          => /\ pc = "done"
             /\ outFile.state = "complete"
             /\ outFile.codec = "png.Encode"
             /\ outFile.img = resized

--------------------------------------------------------------------------
(* C10: the command line.                                                  *)

IsHex(s) == \A i \in 1..Len(s) : InSeq(HexDigits, LowerChar(s[i]))

\* C10: whenever the CLI calls ProcessImage, Width >= 1, Height >= 1,
\* Quality is in 1..100, ResizeMode is one of fit, fill, stretch and
\* PadColor was parsed from six hex digits; every other command line ends
\* in an error before ProcessImage is called.
C10_CliPassesValidOptions ==
    (req.entry = "cli" /\ Called)
        => /\ options.Width >= 1
           /\ options.Height >= 1
           /\ options.Quality \in 1..100
           /\ KnownMode(options.ResizeMode)
           /\ Len(TrimPrefix(req.cli.padColor, <<"#">>)) = 6
           /\ IsHex(TrimPrefix(req.cli.padColor, <<"#">>))
           /\ Len(req.cli.args) <= 2
           /\ inputPath # <<>>
           /\ outputPath # <<>>

--------------------------------------------------------------------------
(* C11: file handles.                                                      *)

\* OpenImage has returned, with an image or with an error.
OpenImageReturned == pc \in {"resize", "create", "encode", "done", "failed"}

\* ProcessImage has returned, with nil or with an error.
ProcessImageReturned == pc \in {"done", "failed"}

\* C11: every file handle the pipeline opens is closed on every exit path
\* of the stage that opened it: once OpenImage has returned (with an image
\* or any error) no handle on the input file is open, once ProcessImage
\* has returned (success, unsupported output format or encode failure) no
\* handle on the output file is open, and in every terminal state of a run
\* the number of open handles is zero.
C11_HandlesClosedOnEveryExit ==
    /\ OpenImageReturned => handles.in = 0
    /\ ProcessImageReturned => handles.out = 0
    /\ Terminal => handles.in + handles.out = 0

\* A run that opened both files, left OpenImage through the return inside
\* its switch and ProcessImage through the unsupported-format return of
\* the encoder switch, and holds no handle.
C11_Witness ==
    /\ pc = "failed"
    /\ err = "EncodeUnsupported"
    /\ {<<"os.Open">>, <<"os.Create">>, <<"decode", "imaging.Open">>} \subseteq did
    /\ outFile.state = "empty"
    /\ handles = NoHandles

====
